---- MODULE Spec2Model ----
(***************************************************************************)
(* Model of go-tfe plan.go: plans.Read, plans.Logs, the completion closure *)
(* `done` built by Logs, and the LogReader that Logs returns.              *)
(*                                                                         *)
(* The remote side (the plan records and their append-only logs) is the    *)
(* environment.  plans.Read / plans.Logs are one action each; a call of    *)
(* LogReader.Read spans several network calls, so it is a little process   *)
(* with a position (pc): fetching -> awaiting -> sleeping -> fetching ...  *)
(* and the environment may move between any two of its network calls.      *)
(***************************************************************************)
EXTENDS Integers, Sequences, FiniteSets, TLC

(* ---------------------------- bounds ---------------------------------- *)
\* longest remote log, in bytes
MaxLog == 2
\* largest caller buffer len(l) handed to LogReader.Read
MaxBuf == 2
\* per-call counters saturate here (a polling loop is unbounded)
MaxCount == 2

(* ---------------------------- constants ------------------------------- *)
PlanCanceled    == "canceled"
PlanCreated     == "created"
PlanErrored     == "errored"
PlanFinished    == "finished"
PlanMFAWaiting  == "mfa_waiting"
PlanPending     == "pending"
PlanQueued      == "queued"
PlanRunning     == "running"
PlanUnreachable == "unreachable"

PlanStatus ==
  { PlanCanceled, PlanCreated, PlanErrored, PlanFinished, PlanMFAWaiting,
    PlanPending, PlanQueued, PlanRunning, PlanUnreachable }

\* errors a call can return
NoErr             == "nil"
ErrInvalidPlanID  == "invalid value for plan ID"
ErrRequest        == "request error"
ErrNoLogURL       == "plan does not have a log URL"
ErrInvalidLogURL  == "invalid log URL"
EOF               == "EOF"
ErrCanceled       == "context canceled"

\* plan IDs the caller may pass; the last two fail format validation.
\* plan-1 is a job that has just been created; plan-2 is a job that was
\* canceled after it wrote one byte of log
JobIDs   == { "plan-1", "plan-2" }
BadIDs   == { "", "plan/1" }
PlanIDs  == JobIDs \cup BadIDs

\* bytes a job may write to its log
Bytes == { 1, 2 }

\* log-read-url attribute values of a plan record
NoURL     == ""
BadURL    == "://archivist/bad"
LogURLOf  == [ j \in JobIDs |->
               IF j = "plan-1" THEN "https://archivist/plan-1"
                               ELSE "https://archivist/plan-2" ]
LogURLs   == { NoURL, BadURL } \cup { LogURLOf[j] : j \in JobIDs }

None == [ none |-> TRUE ]

Min(a, b) == IF a < b THEN a ELSE b
Inc(c)    == IF c < MaxCount THEN c + 1 ELSE c
IsPrefix(s, t) == Len(s) <= Len(t) /\ SubSeq(t, 1, Len(s)) = s

VARIABLES
  jobs,       \* remote: JobIDs -> [Status, LogReadURL, log]
  reader,     \* the *LogReader the caller holds, or None
  pc,         \* position of the in-flight LogReader.Read call
  buf,        \* len(l) of the in-flight LogReader.Read call
  delivered,  \* bytes the reader has handed to its caller so far
  call,       \* the current / most recent API call and what it did
  ctxDone     \* the ctx given to the Logs call of the held reader is canceled

vars == << jobs, reader, pc, buf, delivered, call, ctxDone >>

(* ------------------------- external helpers --------------------------- *)
\* validateID: the format check on a plan ID
validStringID(id) == id \notin BadIDs

\* url.Parse on the log-read-url values of the model: the empty string
\* parses to the empty URL, a string without a scheme before "://" fails
URLParse(s) ==
  IF s = BadURL THEN [ ok |-> FALSE, url |-> [ Scheme |-> "", Path |-> "" ] ]
  ELSE IF s = NoURL THEN [ ok |-> TRUE, url |-> [ Scheme |-> "", Path |-> "" ] ]
  ELSE [ ok |-> TRUE,
         url |-> [ Scheme |-> "https",
                   Path |-> CHOOSE j \in JobIDs : LogURLOf[j] = s ] ]

\* outcomes of building and sending one request
Outcomes == { "ok", "newreq_err", "do_err" }

\* the same, when the ctx of the request may already be canceled
CtxOutcomes == Outcomes \cup { "canceled" }

\* a request that was built is given the reader's ctx: once that ctx is
\* canceled the request ends with the ctx error
CtxOutcome(outcome) ==
  IF ctxDone /\ outcome # "newreq_err" THEN "canceled" ELSE outcome

(* ------------------------------ plans.Read ----------------------------- *)
\* variant: the ID check is missing and the request is sent anyway
Read_NoValidation(id, outcome) ==
  IF outcome = "newreq_err"
    THEN [ id |-> id, plan |-> None, err |-> ErrRequest, fetches |-> 0 ]
  ELSE IF outcome = "canceled"
    THEN [ id |-> id, plan |-> None, err |-> ErrCanceled, fetches |-> 1 ]
  ELSE IF outcome = "do_err" \/ id \notin JobIDs
    THEN [ id |-> id, plan |-> None, err |-> ErrRequest, fetches |-> 1 ]
  ELSE [ id |-> id,
         plan |-> [ ID |-> id,
                    Status |-> jobs[id].Status,
                    LogReadURL |-> jobs[id].LogReadURL ],
         err |-> NoErr, fetches |-> 1 ]

Read(id, outcome) ==
  IF ~validStringID(id)
    THEN [ id |-> id, plan |-> None, err |-> ErrInvalidPlanID,
           fetches |-> 0 ]
  ELSE IF outcome = "newreq_err"
    THEN [ id |-> id, plan |-> None, err |-> ErrRequest, fetches |-> 0 ]
  ELSE IF outcome = "canceled"
    THEN [ id |-> id, plan |-> None, err |-> ErrCanceled, fetches |-> 1 ]
  ELSE IF outcome = "do_err" \/ id \notin JobIDs
    THEN [ id |-> id, plan |-> None, err |-> ErrRequest, fetches |-> 1 ]
  ELSE [ id |-> id,
         plan |-> [ ID |-> id,
                    Status |-> jobs[id].Status,
                    LogReadURL |-> jobs[id].LogReadURL ],
         err |-> NoErr, fetches |-> 1 ]

(* ------------------------ the done closure of Logs --------------------- *)
\* variants: a status missing from, or added to, the case list
DoneStatus_RunningIsDone(status) ==
  status \in { PlanCanceled, PlanErrored, PlanFinished, PlanUnreachable,
               PlanRunning }

DoneStatus_NoErrored(status) ==
  status \in { PlanCanceled, PlanFinished, PlanUnreachable }

DoneStatus_NoUnreachable(status) ==
  status \in { PlanCanceled, PlanErrored, PlanFinished }

DoneStatus_NoCanceled(status) ==
  status \in { PlanErrored, PlanFinished, PlanUnreachable }

\* the switch on p.Status
DoneStatus(status) ==
  CASE status = PlanCanceled    -> TRUE
    [] status = PlanErrored     -> TRUE
    [] status = PlanFinished    -> TRUE
    [] status = PlanUnreachable -> TRUE
    [] OTHER                    -> FALSE

\* variant: a "not done" answer is remembered and given again
Done_Memoized(planID, outcome) ==
  IF call.doneRes = "false"
    THEN [ id |-> planID, done |-> FALSE, err |-> NoErr, fetches |-> 0 ]
    ELSE LET r == Read(planID, CtxOutcome(outcome)) IN
      IF r.err # NoErr
        THEN [ id |-> r.id, done |-> FALSE, err |-> r.err,
               fetches |-> r.fetches ]
        ELSE [ id |-> r.id, done |-> DoneStatus(r.plan.Status),
               err |-> NoErr, fetches |-> r.fetches ]

\* variant: a failed record fetch is taken for "the plan is gone, done"
Done_SwallowsError(planID, outcome) ==
  LET r == Read(planID, CtxOutcome(outcome)) IN
    IF r.err # NoErr
      THEN [ id |-> r.id, done |-> TRUE, err |-> NoErr,
             fetches |-> r.fetches ]
      ELSE [ id |-> r.id, done |-> DoneStatus(r.plan.Status),
             err |-> NoErr, fetches |-> r.fetches ]

\* variant: the record is read with a context of its own, not the ctx
\* that Logs was given
Done_IgnoresCtx(planID, outcome) ==
  LET r == Read(planID, outcome) IN
    IF r.err # NoErr
      THEN [ id |-> r.id, done |-> FALSE, err |-> r.err,
             fetches |-> r.fetches ]
      ELSE [ id |-> r.id, done |-> DoneStatus(r.plan.Status),
             err |-> NoErr, fetches |-> r.fetches ]

\* variant: a failed record fetch is reported as (true, err)
Done_DoneOnError(planID, outcome) ==
  LET r == Read(planID, CtxOutcome(outcome)) IN
    IF r.err # NoErr
      THEN [ id |-> r.id, done |-> TRUE, err |-> r.err,
             fetches |-> r.fetches ]
      ELSE [ id |-> r.id, done |-> DoneStatus(r.plan.Status),
             err |-> NoErr, fetches |-> r.fetches ]

\* variant: the record read is that of another plan than the captured one
Done_OtherPlan(planID, outcome) ==
  LET other == CHOOSE j \in JobIDs : j # planID
      r     == Read(other, CtxOutcome(outcome)) IN
    IF r.err # NoErr
      THEN [ id |-> r.id, done |-> FALSE, err |-> r.err,
             fetches |-> r.fetches ]
      ELSE [ id |-> r.id, done |-> DoneStatus(r.plan.Status),
             err |-> NoErr, fetches |-> r.fetches ]

\* done(), for the p.ID and the ctx captured by the closure; id is the
\* plan whose record it asked for
Done(planID, outcome) ==
  LET r == Read(planID, CtxOutcome(outcome)) IN
    IF r.err # NoErr
      THEN [ id |-> r.id, done |-> FALSE, err |-> r.err,
             fetches |-> r.fetches ]
      ELSE [ id |-> r.id, done |-> DoneStatus(r.plan.Status),
             err |-> NoErr, fetches |-> r.fetches ]

(* ------------------------------ plans.Logs ----------------------------- *)
\* the closure keeps p.ID; offset and terminal flag start at zero
NewLogReader(p, u) ==
  [ planID |-> p.ID, logURL |-> u, offset |-> 0, eof |-> FALSE ]

\* variant: the empty-log-URL check is missing
LogsResult_NoURLCheck(id, outcome) ==
  IF ~validStringID(id)
    THEN [ reader |-> None, err |-> ErrInvalidPlanID, fetches |-> 0,
           plan |-> None ]
  ELSE LET r == Read(id, outcome) IN
    IF r.err # NoErr
      THEN [ reader |-> None, err |-> r.err, fetches |-> r.fetches,
             plan |-> None ]
    ELSE LET u == URLParse(r.plan.LogReadURL) IN
      IF ~u.ok
        THEN [ reader |-> None, err |-> ErrInvalidLogURL,
               fetches |-> r.fetches, plan |-> r.plan ]
        ELSE [ reader |-> NewLogReader(r.plan, u.url), err |-> NoErr,
               fetches |-> r.fetches, plan |-> r.plan ]

\* variant: the error of url.Parse is dropped
LogsResult_IgnoresParseError(id, outcome) ==
  IF ~validStringID(id)
    THEN [ reader |-> None, err |-> ErrInvalidPlanID, fetches |-> 0,
           plan |-> None ]
  ELSE LET r == Read(id, outcome) IN
    IF r.err # NoErr
      THEN [ reader |-> None, err |-> r.err, fetches |-> r.fetches,
             plan |-> None ]
    ELSE IF r.plan.LogReadURL = ""
      THEN [ reader |-> None, err |-> ErrNoLogURL, fetches |-> r.fetches,
             plan |-> r.plan ]
    ELSE LET u == URLParse(r.plan.LogReadURL) IN
      [ reader |-> NewLogReader(r.plan, u.url), err |-> NoErr,
        fetches |-> r.fetches, plan |-> r.plan ]

\* variant: done() is called once while the reader is built
LogsResult_EagerDone(id, outcome) ==
  IF ~validStringID(id)
    THEN [ reader |-> None, err |-> ErrInvalidPlanID, fetches |-> 0,
           plan |-> None ]
  ELSE LET r == Read(id, outcome) IN
    IF r.err # NoErr
      THEN [ reader |-> None, err |-> r.err, fetches |-> r.fetches,
             plan |-> None ]
    ELSE IF r.plan.LogReadURL = ""
      THEN [ reader |-> None, err |-> ErrNoLogURL, fetches |-> r.fetches,
             plan |-> r.plan ]
    ELSE LET u == URLParse(r.plan.LogReadURL) IN
      IF ~u.ok
        THEN [ reader |-> None, err |-> ErrInvalidLogURL,
               fetches |-> r.fetches, plan |-> r.plan ]
        ELSE [ reader |-> NewLogReader(r.plan, u.url), err |-> NoErr,
               fetches |-> r.fetches + Done(r.plan.ID, outcome).fetches,
               plan |-> r.plan ]

\* what Logs returns: the reader (or None), the error, and what it fetched
LogsResult(id, outcome) ==
  IF ~validStringID(id)
    THEN [ reader |-> None, err |-> ErrInvalidPlanID, fetches |-> 0,
           plan |-> None ]
  ELSE LET r == Read(id, outcome) IN
    IF r.err # NoErr
      THEN [ reader |-> None, err |-> r.err, fetches |-> r.fetches,
             plan |-> None ]
    ELSE IF r.plan.LogReadURL = ""
      THEN [ reader |-> None, err |-> ErrNoLogURL, fetches |-> r.fetches,
             plan |-> r.plan ]
    ELSE LET u == URLParse(r.plan.LogReadURL) IN
      IF ~u.ok
        THEN [ reader |-> None, err |-> ErrInvalidLogURL,
               fetches |-> r.fetches, plan |-> r.plan ]
        ELSE [ reader |-> NewLogReader(r.plan, u.url), err |-> NoErr,
               fetches |-> r.fetches, plan |-> r.plan ]

(* --------------------------- the call record --------------------------- *)
\* op: the API called; id: its plan ID; err, n: what it returned;
\* gotReader: Logs returned a reader; plan: the record the call fetched;
\* recordFetches / chunkFetches / sleeps: requests sent and pauses taken
\* by this call; pollOutcome, doneRes: how the last record fetch made by
\* done() in this call went, and what done() answered;
\* eofAtCall: the reader's terminal flag when LogReader.Read began;
\* reqOutcome: how the call's own last request went (the record request of
\* Read and Logs, the chunk request of LogReader.Read);
\* polledID: the plan whose record done() last asked for
NewCall(op, id) ==
  [ op |-> op, id |-> id, err |-> NoErr, n |-> 0, gotReader |-> FALSE,
    plan |-> None, recordFetches |-> 0, chunkFetches |-> 0, sleeps |-> 0,
    pollOutcome |-> "none", doneRes |-> "none", eofAtCall |-> FALSE,
    reqOutcome |-> "none", polledID |-> "" ]

TypeOK ==
  /\ jobs \in [ JobIDs -> [ Status : PlanStatus, LogReadURL : LogURLs,
                            log : Seq(Bytes) ] ]
  /\ \A j \in JobIDs : Len(jobs[j].log) <= MaxLog
  /\ pc \in { "idle", "fetching", "awaiting", "sleeping" }
  /\ buf \in 0..MaxBuf
  /\ Len(delivered) <= MaxLog
  /\ reader # None => /\ reader.offset \in 0..MaxLog
                      /\ reader.eof \in BOOLEAN
                      /\ reader.planID \in JobIDs
  /\ ctxDone \in BOOLEAN

Init ==
  /\ jobs = [ j \in JobIDs |->
              IF j = "plan-1"
                THEN [ Status |-> PlanCreated, LogReadURL |-> NoURL,
                       log |-> << >> ]
                ELSE [ Status |-> PlanCanceled, LogReadURL |-> LogURLOf[j],
                       log |-> << 2 >> ] ]
  /\ reader = None
  /\ pc = "idle"
  /\ buf = 0
  /\ delivered = << >>
  /\ call = NewCall("none", "")
  /\ ctxDone = FALSE

(* ------------------- the remote side (environment) --------------------- *)
\* statuses from which the remote job never moves again
TerminalStatuses ==
  { PlanFinished, PlanErrored, PlanCanceled, PlanUnreachable }

\* the job moves to another status
SetStatus(j, s) ==
  /\ jobs[j].Status \notin TerminalStatuses
  /\ s # jobs[j].Status
  /\ jobs' = [ jobs EXCEPT ![j].Status = s ]
  /\ UNCHANGED << reader, pc, buf, delivered, call, ctxDone >>

\* the job gets its log location: its own, or a malformed one
AssignLogURL(j, u) ==
  /\ jobs[j].Status \notin TerminalStatuses
  /\ jobs[j].LogReadURL = NoURL
  /\ u \in { BadURL, LogURLOf[j] }
  /\ jobs' = [ jobs EXCEPT ![j].LogReadURL = u ]
  /\ UNCHANGED << reader, pc, buf, delivered, call, ctxDone >>

\* the running job appends one byte to its log
AppendLog(j, b) ==
  /\ jobs[j].Status \notin TerminalStatuses
  /\ jobs[j].LogReadURL = LogURLOf[j]
  /\ Len(jobs[j].log) < MaxLog
  /\ jobs' = [ jobs EXCEPT ![j].log = Append(@, b) ]
  /\ UNCHANGED << reader, pc, buf, delivered, call, ctxDone >>

(* ----------------------------- API calls ------------------------------- *)
\* plans.Read called by the user
PlanRead(id, outcome) ==
  /\ pc = "idle"
  /\ LET r == Read(id, outcome) IN
       call' = [ NewCall("Read", id) EXCEPT
                   !.err = r.err, !.plan = r.plan,
                   !.recordFetches = r.fetches,
                   !.reqOutcome = outcome ]
  /\ UNCHANGED << jobs, reader, pc, buf, delivered, ctxDone >>

\* plans.Logs called by the user; a reader it returns replaces the one
\* held, and the ctx of the call becomes the ctx of that reader
Logs(id, outcome) ==
  /\ pc = "idle"
  /\ LET r == LogsResult(id, outcome) IN
       /\ call' = [ NewCall("Logs", id) EXCEPT
                      !.err = r.err, !.plan = r.plan,
                      !.gotReader = (r.reader # None),
                      !.recordFetches = r.fetches,
                      !.reqOutcome = outcome ]
       /\ IF r.reader # None
            THEN reader' = r.reader /\ delivered' = << >>
                 /\ ctxDone' = FALSE
            ELSE UNCHANGED << reader, delivered, ctxDone >>
  /\ UNCHANGED << jobs, pc, buf >>

(* --------------------------- LogReader.Read ---------------------------- *)
\* variant: the terminal flag is not looked at
ReaderRead_IgnoresFlag(len) ==
  /\ pc = "idle"
  /\ reader # None
  /\ call' = [ NewCall("LogRead", reader.planID) EXCEPT
                !.eofAtCall = reader.eof ]
  /\ pc' = "fetching"
  /\ buf' = len
  /\ UNCHANGED << jobs, reader, delivered, ctxDone >>

\* step 1: the caller calls Read(l) with len(l) = len; a set terminal
\* flag ends the call at once
ReaderRead(len) ==
  /\ pc = "idle"
  /\ reader # None
  /\ LET c == [ NewCall("LogRead", reader.planID) EXCEPT
                  !.eofAtCall = reader.eof ] IN
       IF reader.eof
         THEN /\ call' = [ c EXCEPT !.err = EOF ]
              /\ UNCHANGED << pc, buf >>
         ELSE /\ call' = c
              /\ pc' = "fetching"
              /\ buf' = len
  /\ UNCHANGED << jobs, reader, delivered, ctxDone >>

\* the log behind a parsed log URL
RemoteLog(u) == IF u.Path \in JobIDs THEN jobs[u.Path].log ELSE << >>

\* how the chunk request ends: with the ctx error once the ctx is
\* canceled, with a transport error, or with the bytes
ChunkOutcome(ok) ==
  IF ctxDone THEN "canceled"
  ELSE IF ~ok \/ reader.logURL.Scheme = "" THEN "do_err"
  ELSE "ok"

\* variant: the offset is not moved past the bytes that were copied
FetchChunk_NoAdvance(ok, k) ==
  /\ pc = "fetching"
  /\ LET log   == RemoteLog(reader.logURL)
         avail == Len(log) - reader.offset
         out   == ChunkOutcome(ok)
         c     == [ call EXCEPT !.chunkFetches = Inc(@),
                                !.reqOutcome = out ] IN
       IF out # "ok"
         THEN /\ call' = [ c EXCEPT !.err = IF out = "canceled"
                                              THEN ErrCanceled
                                              ELSE ErrRequest ]
              /\ pc' = "idle" /\ buf' = 0
              /\ UNCHANGED << reader, delivered >>
       ELSE IF avail > 0
         THEN /\ k \in 1..Min(avail, buf)
              /\ delivered' = delivered \o
                   SubSeq(log, reader.offset + 1, reader.offset + k)
              /\ reader' = reader
              /\ call' = [ c EXCEPT !.n = k ]
              /\ pc' = "idle" /\ buf' = 0
         ELSE /\ k = 1
              /\ call' = c
              /\ pc' = "awaiting"
              /\ UNCHANGED << reader, delivered, buf >>
  /\ UNCHANGED << jobs, ctxDone >>

\* variant: the completion oracle is asked after every fetch, also one
\* that brought bytes
FetchChunk_PollsAfterBytes(ok, k) ==
  /\ pc = "fetching"
  /\ LET log   == RemoteLog(reader.logURL)
         avail == Len(log) - reader.offset
         out   == ChunkOutcome(ok)
         c     == [ call EXCEPT !.chunkFetches = Inc(@),
                                !.reqOutcome = out ] IN
       IF out # "ok"
         THEN /\ call' = [ c EXCEPT !.err = IF out = "canceled"
                                              THEN ErrCanceled
                                              ELSE ErrRequest ]
              /\ pc' = "idle" /\ buf' = 0
              /\ UNCHANGED << reader, delivered >>
       ELSE IF avail > 0
         THEN /\ k \in 1..Min(avail, buf)
              /\ delivered' = delivered \o
                   SubSeq(log, reader.offset + 1, reader.offset + k)
              /\ reader' = [ reader EXCEPT !.offset = @ + k ]
              /\ call' = [ c EXCEPT !.n = k ]
              /\ pc' = "awaiting" /\ buf' = buf
         ELSE /\ k = 1
              /\ call' = c
              /\ pc' = "awaiting"
              /\ UNCHANGED << reader, delivered, buf >>
  /\ UNCHANGED << jobs, ctxDone >>

\* variant: a failed chunk request is treated like "no new bytes yet"
FetchChunk_RetriesFailure(ok, k) ==
  /\ pc = "fetching"
  /\ LET log   == RemoteLog(reader.logURL)
         avail == Len(log) - reader.offset
         out   == ChunkOutcome(ok)
         c     == [ call EXCEPT !.chunkFetches = Inc(@),
                                !.reqOutcome = out ] IN
       IF out # "ok"
         THEN /\ IF out = "canceled"
                   THEN /\ call' = [ c EXCEPT !.err = ErrCanceled ]
                        /\ pc' = "idle" /\ buf' = 0
                   ELSE /\ call' = c
                        /\ pc' = "sleeping" /\ buf' = buf
              /\ UNCHANGED << reader, delivered >>
       ELSE IF avail > 0
         THEN /\ k \in 1..Min(avail, buf)
              /\ delivered' = delivered \o
                   SubSeq(log, reader.offset + 1, reader.offset + k)
              /\ reader' = [ reader EXCEPT !.offset = @ + k ]
              /\ call' = [ c EXCEPT !.n = k ]
              /\ pc' = "idle" /\ buf' = 0
         ELSE /\ k = 1
              /\ call' = c
              /\ pc' = "awaiting"
              /\ UNCHANGED << reader, delivered, buf >>
  /\ UNCHANGED << jobs, ctxDone >>

\* step 2: fetch the next chunk from the offset; k bytes come back
FetchChunk(ok, k) ==
  /\ pc = "fetching"
  /\ LET log   == RemoteLog(reader.logURL)
         avail == Len(log) - reader.offset
         out   == ChunkOutcome(ok)
         c     == [ call EXCEPT !.chunkFetches = Inc(@),
                                !.reqOutcome = out ] IN
       IF out # "ok"
         THEN /\ call' = [ c EXCEPT !.err = IF out = "canceled"
                                              THEN ErrCanceled
                                              ELSE ErrRequest ]
              /\ pc' = "idle" /\ buf' = 0
              /\ UNCHANGED << reader, delivered >>
       ELSE IF avail > 0
         THEN /\ k \in 1..Min(avail, buf)
              /\ delivered' = delivered \o
                   SubSeq(log, reader.offset + 1, reader.offset + k)
              /\ reader' = [ reader EXCEPT !.offset = @ + k ]
              /\ call' = [ c EXCEPT !.n = k ]
              /\ pc' = "idle" /\ buf' = 0
         ELSE /\ k = 1
              /\ call' = c
              /\ pc' = "awaiting"
              /\ UNCHANGED << reader, delivered, buf >>
  /\ UNCHANGED << jobs, ctxDone >>

\* steps 3 and 4: no bytes came, ask the completion oracle
PollDone(outcome) ==
  /\ pc = "awaiting"
  /\ LET d == Done(reader.planID, outcome)
         c == [ call EXCEPT !.recordFetches = Min(@ + d.fetches, MaxCount),
                            !.pollOutcome = CtxOutcome(outcome),
                            !.polledID = d.id ] IN
       IF d.err # NoErr
         THEN /\ call' = [ c EXCEPT !.err = d.err,
                             !.doneRes = IF d.done THEN "true_err"
                                                   ELSE "err" ]
              /\ pc' = "idle" /\ buf' = 0
              /\ UNCHANGED reader
       ELSE IF d.done
         THEN /\ call' = [ c EXCEPT !.err = EOF, !.doneRes = "true" ]
              /\ reader' = [ reader EXCEPT !.eof = TRUE ]
              /\ pc' = "idle" /\ buf' = 0
         ELSE /\ call' = [ c EXCEPT !.doneRes = "false" ]
              /\ pc' = "sleeping"
              /\ UNCHANGED << reader, buf >>
  /\ UNCHANGED << jobs, delivered, ctxDone >>

\* step 3c: the pause before the next fetch; it ends at once with the ctx
\* error when the ctx is canceled
Sleep ==
  /\ pc = "sleeping"
  /\ IF ctxDone
       THEN /\ pc' = "idle" /\ buf' = 0
            /\ call' = [ call EXCEPT !.err = ErrCanceled ]
       ELSE /\ pc' = "fetching"
            /\ call' = [ call EXCEPT !.sleeps = Inc(@) ]
            /\ UNCHANGED buf
  /\ UNCHANGED << jobs, reader, delivered, ctxDone >>

\* the caller cancels the ctx it gave to Logs
Cancel ==
  /\ reader # None
  /\ ~ctxDone
  /\ ctxDone' = TRUE
  /\ UNCHANGED << jobs, reader, pc, buf, delivered, call >>

Next ==
  \/ \E j \in JobIDs, s \in PlanStatus : SetStatus(j, s)
  \/ \E j \in JobIDs, u \in LogURLs : AssignLogURL(j, u)
  \/ \E j \in JobIDs, b \in Bytes : AppendLog(j, b)
  \/ \E id \in PlanIDs, o \in CtxOutcomes : PlanRead(id, o)
  \/ \E id \in PlanIDs, o \in CtxOutcomes : Logs(id, o)
  \/ \E len \in 1..MaxBuf : ReaderRead(len)
  \/ \E ok \in BOOLEAN, k \in 1..MaxBuf : FetchChunk(ok, k)
  \/ \E o \in Outcomes : PollDone(o)
  \/ Sleep
  \/ Cancel

Spec == Init /\ [][Next]_vars

(* ------------------------------ fairness ------------------------------- *)
\* every request the reader sends is answered, its pause ends, and the
\* remote job eventually reaches a terminal status
Terminate == \E j \in JobIDs, s \in TerminalStatuses : SetStatus(j, s)

LiveSpec ==
  /\ Spec
  /\ WF_vars(\E ok \in BOOLEAN, k \in 1..MaxBuf : FetchChunk(ok, k))
  /\ WF_vars(\E o \in Outcomes : PollDone(o))
  /\ WF_vars(Sleep)
  /\ WF_vars(Terminate)

(* ------------------------------ properties ----------------------------- *)
\* the log of the job the held reader was opened for
StreamLog == jobs[reader.planID].log

\* a step in which done() was called and answered
PollAnswered == pc = "awaiting" /\ pc' # "awaiting"

\* C1: for a job that reaches a terminal status with log content C, the
\* bytes the reads of a stream opened for it deliver are at every point a
\* prefix of C, and when end-of-stream is returned they are exactly C.
C1_StreamReproducesContent ==
  reader # None =>
    /\ IsPrefix(delivered, StreamLog)
    /\ reader.eof => /\ jobs[reader.planID].Status \in TerminalStatuses
                     /\ delivered = StreamLog

\* the part of C1 that the reader keeps: delivered bytes are a prefix of
\* the log, the offset counts them, and end-of-stream means terminal status
C1_DeliveredIsPrefix ==
  reader # None =>
    /\ IsPrefix(delivered, StreamLog)
    /\ reader.offset = Len(delivered)
    /\ reader.eof => jobs[reader.planID].Status \in TerminalStatuses

\* C2: end-of-stream is sticky.  A Read that starts with the terminal flag
\* set returns (0, EOF) at once without any chunk or record fetch, and the
\* flag, once set, stays set for as long as the reader is held.
C2_ReadAfterEOF ==
  (call.op = "LogRead" /\ call.eofAtCall) =>
    /\ pc = "idle"
    /\ call.err = EOF
    /\ call.n = 0
    /\ call.chunkFetches = 0
    /\ call.recordFetches = 0
    /\ call.sleeps = 0

C2_EOFSticky ==
  /\ []C2_ReadAfterEOF
  /\ [][ (reader # None /\ reader.eof) =>
           (reader' = reader \/ (call'.op = "Logs" /\ call'.gotReader)) ]_vars

C2_Witness ==
  /\ call.op = "LogRead" /\ call.eofAtCall /\ call.err = EOF
  /\ reader # None /\ reader.eof

\* C3: the reader never reports end-of-stream while unread remote bytes
\* exist; end-of-stream is declared only by a Read whose fetch yielded zero
\* bytes and whose oracle call reported terminal.
C3_NoEOFWithUnreadBytes ==
  (call.op = "LogRead" /\ pc = "idle" /\ call.err = EOF) =>
    /\ call.n = 0
    /\ call.eofAtCall \/ (call.chunkFetches >= 1 /\ call.doneRes = "true")
    /\ Len(StreamLog) = reader.offset

\* C4: when the fetch returned zero bytes and the oracle answers that the
\* job is not terminal, Read returns neither end-of-stream nor an error:
\* it pauses, and after the pause it fetches again (a pause that the
\* cancellation of the ctx cuts short is the case of C11).
C4_PauseAndRetry ==
  /\ [][ ( /\ PollAnswered
           /\ call'.pollOutcome = "ok"
           /\ \/ call'.doneRes = "false"
              \/ jobs[reader.planID].Status \notin TerminalStatuses )
         => ( /\ pc' = "sleeping"
              /\ call'.err = NoErr /\ call'.n = 0
              /\ reader' = reader /\ ~reader'.eof ) ]_vars
  /\ [][ (pc = "sleeping" /\ ~ctxDone) =>
           ( /\ pc' \in { "sleeping", "fetching" }
             /\ call'.err = NoErr /\ reader' = reader ) ]_vars

C4_Witness ==
  /\ pc = "fetching" /\ call.sleeps >= 1 /\ call.doneRes = "false"
  /\ call.err = NoErr

\* C5: once a Read is in flight it returns: with new bytes, with
\* end-of-stream, or with the error of a request that failed or of the
\* canceled ctx.  It cannot
\* poll forever, since the job reaches a terminal status; this includes a
\* job that failed before it wrote any output.
C5_ReadReturns ==
  (pc # "idle") ~>
    ( /\ pc = "idle" /\ call.op = "LogRead"
      /\ \/ call.n > 0 /\ call.err = NoErr
         \/ call.n = 0 /\ call.err \in { EOF, ErrRequest, ErrCanceled } )

C5_Witness ==
  /\ pc = "idle" /\ call.op = "LogRead" /\ call.err = EOF
  /\ call.sleeps >= 1
  /\ delivered = << >>
  /\ jobs[reader.planID].Status = PlanErrored

\* C6: whenever done() fetched the record, it answers true exactly when
\* the fetched status is finished, errored, canceled or unreachable, and
\* false for every other status.
C6_DoneClassifiesStatus ==
  [][ (PollAnswered /\ call'.pollOutcome = "ok") =>
        LET st == jobs[reader.planID].Status IN
          /\ st \in TerminalStatuses    => call'.doneRes = "true"
          /\ st \notin TerminalStatuses => call'.doneRes = "false" ]_vars

C6_Witness ==
  /\ call.op = "LogRead" /\ call.pollOutcome = "ok"
  /\ call.doneRes = "true"
  /\ jobs[reader.planID].Status = PlanUnreachable

\* C7: done() caches nothing.  Each call sends a fresh record request, and
\* a call made after an earlier "not done" answer, when the job has since
\* become terminal, answers "done".
C7_DoneIsFresh ==
  [][ (PollAnswered /\ call'.pollOutcome # "newreq_err") =>
        /\ call'.recordFetches = Min(call.recordFetches + 1, MaxCount)
        /\ ( /\ call.doneRes = "false"
             /\ call'.pollOutcome = "ok"
             /\ jobs[reader.planID].Status \in TerminalStatuses )
           => call'.doneRes = "true" ]_vars

C7_Witness ==
  /\ call.op = "LogRead" /\ call.sleeps >= 1
  /\ call.doneRes = "true" /\ call.recordFetches >= 2

\* C8: when the record fetch of done() fails during a Read, that Read
\* returns the error: it neither pauses to poll again, nor reports
\* end-of-stream, nor sets the terminal flag.
C8_OracleErrorReturned ==
  (call.op = "LogRead" /\ call.pollOutcome \in { "newreq_err", "do_err" }) =>
    /\ pc = "idle"
    /\ call.doneRes = "err"
    /\ call.err = ErrRequest
    /\ call.n = 0
    /\ ~reader.eof

C8_Witness ==
  /\ call.op = "LogRead" /\ call.pollOutcome = "do_err"
  /\ pc = "idle" /\ call.err = ErrRequest

\* C9: when the fetched plan record has an empty log URL, Logs fails with
\* the missing-log-URL error, returns no reader and fetches no log chunk.
C9_EmptyLogURL ==
  (call.op = "Logs" /\ call.plan # None /\ call.plan.LogReadURL = "") =>
    /\ call.err = ErrNoLogURL
    /\ ~call.gotReader
    /\ call.chunkFetches = 0
    /\ call.recordFetches = 1

C9_Witness ==
  /\ call.op = "Logs" /\ call.plan # None /\ call.plan.LogReadURL = ""
  /\ call.err = ErrNoLogURL

\* C10: when the plan ID fails format validation, Logs and Read return the
\* invalid-plan-ID error and send no request at all.
C10_InvalidID ==
  (call.op \in { "Logs", "Read" } /\ call.id \in BadIDs) =>
    /\ call.err = ErrInvalidPlanID
    /\ call.recordFetches = 0
    /\ call.chunkFetches = 0
    /\ ~call.gotReader
    /\ call.plan = None

C10_Witness ==
  /\ call.op = "Logs" /\ call.id = "plan/1"
  /\ call.err = ErrInvalidPlanID

\* C11: when the ctx given to Logs is canceled while a Read is in flight
\* (in the chunk fetch, in the status fetch or in the pause), the next
\* step of that Read ends it: it returns zero bytes and the ctx error,
\* moves neither offset nor terminal flag, and starts no further poll
\* cycle.  (A status request that cannot even be built returns its own
\* error instead; it never waited on the ctx.)
C11_CancelEndsRead ==
  [][ (ctxDone /\ pc # "idle" /\ pc' # pc) =>
        /\ pc' = "idle"
        /\ call'.n = 0
        /\ call'.err = IF pc = "awaiting" /\ call'.pollOutcome = "newreq_err"
                         THEN ErrRequest ELSE ErrCanceled
        /\ call'.sleeps = call.sleeps
        /\ reader' = reader
        /\ delivered' = delivered ]_vars

C11_Witness ==
  /\ ctxDone /\ pc = "idle" /\ call.op = "LogRead"
  /\ call.err = ErrCanceled /\ call.pollOutcome = "canceled"
  /\ call.sleeps >= 1

\* C12: the reader's offset never decreases.  It always equals the number
\* of bytes delivered so far; a fetch asks for the bytes from the offset
\* on and moves the offset by exactly the number of bytes it received,
\* and nothing else moves it (a zero-byte fetch leaves it as it is).
C12_OffsetMonotone ==
  /\ [](reader # None => reader.offset = Len(delivered))
  /\ [][ (reader # None /\ ~(call'.op = "Logs" /\ call'.gotReader)) =>
           /\ reader'.offset >= reader.offset
           /\ reader'.offset # reader.offset =>
                (pc = "fetching" /\ pc' = "idle")
           /\ (pc = "fetching" /\ pc' # "fetching") =>
                /\ reader'.offset = reader.offset + call'.n
                /\ delivered' = delivered \o
                     SubSeq(StreamLog, reader.offset + 1,
                            reader.offset + call'.n) ]_vars

C12_Witness ==
  /\ reader # None /\ reader.offset = 2
  /\ call.op = "LogRead" /\ call.n = 1 /\ pc = "idle"

\* C13: the completion oracle is asked only after a fetch that returned
\* zero bytes.  A fetch that returned bytes ends the Read with those bytes
\* and without any status poll, whatever the status of the job.
C13_PollOnlyAfterEmptyFetch ==
  [][ /\ (pc = "fetching" /\ pc' # "fetching" /\ call'.n > 0) =>
           /\ pc' = "idle"
           /\ call'.err = NoErr
           /\ call'.recordFetches = call.recordFetches
           /\ call'.doneRes = call.doneRes
           /\ call'.pollOutcome = call.pollOutcome
      /\ (pc # "awaiting" /\ pc' = "awaiting") =>
           /\ pc = "fetching"
           /\ call'.n = 0
           /\ call'.reqOutcome = "ok"
           /\ delivered' = delivered
      /\ (call'.polledID # call.polledID /\ call'.polledID # "") =>
           (pc = "awaiting" /\ call.n = 0) ]_vars

C13_Witness ==
  /\ call.op = "LogRead" /\ pc = "idle" /\ call.n > 0
  /\ call.recordFetches = 0 /\ call.doneRes = "none"
  /\ jobs[reader.planID].Status \in TerminalStatuses

\* C15: a transport failure of the chunk request ends the Read with that
\* error at once: no retry, no status poll, no end-of-stream, and the
\* offset stays where it was.
C15_FetchErrorReturned ==
  /\ []( (call.op = "LogRead" /\ call.reqOutcome = "do_err") =>
           /\ pc = "idle"
           /\ call.err = ErrRequest
           /\ call.n = 0
           /\ ~reader.eof )
  /\ [][ (pc = "fetching" /\ pc' # "fetching" /\ call'.reqOutcome = "do_err")
           => /\ reader' = reader
              /\ delivered' = delivered
              /\ call'.recordFetches = call.recordFetches
              /\ call'.doneRes = call.doneRes
              /\ call'.sleeps = call.sleeps ]_vars

C15_Witness ==
  /\ call.op = "LogRead" /\ call.reqOutcome = "do_err" /\ pc = "idle"
  /\ call.err = ErrRequest /\ reader.offset >= 1

\* the job of the held reader is terminal and has written no log
TerminalAndEmpty ==
  /\ reader # None
  /\ jobs[reader.planID].Status \in TerminalStatuses
  /\ StreamLog = << >>

\* C14: for a job with an empty log that is already terminal when the
\* stream is opened, the first Read returns (0, EOF) and no error after one
\* zero-byte fetch and one oracle call, without any pause.  (Terminal and
\* empty is kept by every step while the reader is held, so it holds at
\* each step of that Read; the requests are taken to succeed.)
C14_EmptyTerminalJob ==
  /\ [][ (TerminalAndEmpty /\ ~(call'.op = "Logs" /\ call'.gotReader))
           => TerminalAndEmpty' ]_vars
  /\ [][ ( /\ TerminalAndEmpty
           /\ call.op = "LogRead" /\ ~call.eofAtCall /\ call.sleeps = 0 ) =>
           /\ (pc = "fetching" /\ pc' # "fetching"
                 /\ call'.reqOutcome = "ok") =>
                /\ pc' = "awaiting"
                /\ call'.n = 0 /\ call'.err = NoErr
                /\ call'.chunkFetches = 1 /\ call'.recordFetches = 0
           /\ (PollAnswered /\ call'.pollOutcome = "ok") =>
                /\ pc' = "idle"
                /\ call'.n = 0 /\ call'.err = EOF
                /\ call'.chunkFetches = 1 /\ call'.recordFetches = 1
                /\ call'.sleeps = 0
                /\ reader'.eof ]_vars

C14_Witness ==
  /\ TerminalAndEmpty /\ delivered = << >>
  /\ call.op = "LogRead" /\ pc = "idle" /\ ~call.eofAtCall
  /\ call.n = 0 /\ call.err = EOF
  /\ call.chunkFetches = 1 /\ call.recordFetches = 1 /\ call.sleeps = 0
  /\ jobs[reader.planID].Status = PlanCanceled

\* C16: when the record fetch made by done() fails, done() answers
\* (false, err) with the error of the fetch; it never answers "done".
C16_DoneFetchError ==
  [][ (PollAnswered /\ call'.pollOutcome # "ok") =>
        /\ call'.doneRes = "err"
        /\ call'.err = IF call'.pollOutcome = "canceled"
                         THEN ErrCanceled ELSE ErrRequest ]_vars

C16_Witness ==
  /\ call.op = "LogRead" /\ pc = "idle"
  /\ call.pollOutcome = "newreq_err" /\ call.doneRes = "err"

\* C17: the reader that Logs returns for plan X asks, in every call of its
\* completion oracle, for the record of X and of no other plan.
C17_OracleBoundToPlan ==
  /\ []( (call.op = "Logs" /\ call.gotReader) =>
           (reader.planID = call.id /\ reader.logURL.Path = call.id) )
  /\ []( (call.op = "LogRead" /\ call.polledID # "") =>
           (call.polledID = reader.planID /\ call.polledID = call.id) )
  /\ [][ (reader # None /\ reader'.planID # reader.planID) =>
           (call'.op = "Logs" /\ call'.gotReader
              /\ call'.id = reader'.planID) ]_vars

C17_Witness ==
  /\ call.op = "LogRead" /\ call.polledID = "plan-2"
  /\ reader.planID = "plan-2"
  /\ jobs["plan-1"].Status \notin TerminalStatuses

\* C18: Logs returns a reader or an error, never both and never neither.
\* It returns a reader exactly when the ID is valid, the record request
\* succeeded, the log URL is not empty and the log URL parses; the checks
\* come in this order, so an invalid ID is reported before any request and
\* a failed request before a missing or malformed log URL.
C18_ReaderOrError ==
  (call.op = "Logs") =>
    LET valid   == call.id \notin BadIDs
        fetched == valid /\ call.reqOutcome = "ok" IN
      /\ call.gotReader <=> call.err = NoErr
      /\ ~valid => (call.err = ErrInvalidPlanID /\ call.recordFetches = 0)
      /\ (valid /\ ~fetched) =>
           /\ call.plan = None
           /\ call.err = IF call.reqOutcome = "canceled"
                           THEN ErrCanceled ELSE ErrRequest
      /\ fetched =>
           /\ call.plan # None
           /\ call.plan.LogReadURL = NoURL  => call.err = ErrNoLogURL
           /\ call.plan.LogReadURL = BadURL => call.err = ErrInvalidLogURL
           /\ call.plan.LogReadURL \notin { NoURL, BadURL } =>
                (call.gotReader /\ reader # None)

C18_Witness ==
  /\ call.op = "Logs" /\ call.gotReader /\ call.err = NoErr
  /\ call.id = "plan-1" /\ reader # None

\* C19: opening is lazy.  A Logs call that returns a reader has sent
\* exactly one record request, no chunk request, and has not called done();
\* the reader starts at offset zero with nothing delivered.  Chunk requests
\* and status polls are made by LogReader.Read only.
C19_LazyOpen ==
  /\ (call.op = "Logs" /\ call.gotReader) =>
       /\ call.recordFetches = 1
       /\ reader.offset = 0 /\ ~reader.eof /\ delivered = << >>
  /\ (call.op \in { "Logs", "Read" }) =>
       /\ pc = "idle"
       /\ call.chunkFetches = 0
       /\ call.pollOutcome = "none" /\ call.doneRes = "none"
       /\ call.polledID = ""

C19_Witness ==
  /\ call.op = "Logs" /\ call.gotReader /\ call.recordFetches = 1
  /\ Len(StreamLog) >= 1 /\ reader.offset = 0

====
